---- MODULE Spec2Model ----
(***************************************************************************)
(* A model of the Dottify catalogue (MKPD109/com2042cw): the browsable     *)
(* views of views.py over the store of models.py, the album search, the    *)
(* canonical user URL, the rating averages of the album page and the       *)
(* playlist listing of the API.                                            *)
(*                                                                         *)
(* Requests are POSTs of valid forms for the create/update/delete views    *)
(* (a GET only renders a form) and GETs for the listing and detail views.  *)
(* Text is a sequence of one-character strings.  Stars are counted in      *)
(* half stars (validators.py: increments of 0.5), time in days.            *)
(***************************************************************************)
EXTENDS Integers, Sequences, FiniteSets, TLC

VARIABLES
    albums,        \* Album rows: pk -> [artist_account, title, slug]
    nextAlbumId,   \* the next Album primary key
    songs,         \* Song rows: pk -> [album, position]
    nextSongId,    \* the next Song primary key
    playlists,     \* Playlist rows: pk -> [owner, visibility]
    display_name,  \* DottifyUser rows: pk -> display_name
    ratings,       \* Rating rows: pk -> [album, stars, created_at]
    now,           \* the clock (timezone.now()), in days
    user,          \* request.user of the client's session
    last,          \* the last request of the session and its response
    saving         \* Song.save calls that have read last_pos and not yet written

vars == <<albums, nextAlbumId, songs, nextSongId, playlists, display_name,
          ratings, now, user, last, saving>>

-----------------------------------------------------------------------------
(* Bounds of the model *)

NumProfiles == 2      \* DottifyUser rows
InitAlbums == 1       \* Album rows of the initial store
MaxAlbums == 2        \* Album primary keys ever handed out
MaxSongs == 1         \* Song primary keys ever handed out
NumPlaylists == 3     \* Playlist rows of a listing store
MaxQueryLen == 2      \* length of a search text
MaxNameLen == 3       \* length of a display name
MaxSlugLen == 2       \* length of a slug segment of a request
MaxRatings == 3       \* Rating rows
MaxNow == 70          \* last day of the clock
MaxTracks == 3        \* Song rows of a store whose positions are followed
MaxRequests == 2      \* song-creation requests handled at the same time

-----------------------------------------------------------------------------
(* Program constants *)

None == 0             \* NULL / a missing row
HIDDEN == 0
UNLISTED == 1
PUBLIC == 2
RecentDays == 60
MaxStars == 10        \* 5.0 stars, in half stars

Profiles == 1 .. NumProfiles
AlbumIds == 1 .. MaxAlbums
SongIds == 1 .. MaxSongs
TrackIds == 1 .. MaxTracks
PlaylistIds == 1 .. NumPlaylists
Visibility == {HIDDEN, UNLISTED, PUBLIC}
Groups == {"DottifyAdmin", "Artist"}

(* request.user: the principal boundary supplies whether it is authenticated,
   its groups and the DottifyUser row linked to it (None when there is none). *)
AnonymousUser == [is_authenticated |-> FALSE, groups |-> {}, profile |-> None]
Principals ==
    {AnonymousUser} \cup
    [is_authenticated : {TRUE}, groups : SUBSET Groups, profile : Profiles \cup {None}]

-----------------------------------------------------------------------------
(* Text *)

Alphabet == {"a", "B", "!", " ", "_"}
SlugAlphabet == {"a", "b", "B", "-", "_"}

SeqsUpTo(S, n) == UNION {[1 .. k -> S] : k \in 0 .. n}

\* str.lower() on one character
Lower(c) == CASE c = "A" -> "a" [] c = "B" -> "b" [] OTHER -> c

LowerText(s) == [i \in DOMAIN s |-> Lower(s[i])]

IsWord(c) == c \in {"a", "b", "A", "B", "_"}      \* \w
IsSpace(c) == c = " "                             \* \s
IsHyphen(c) == c = "-"

\* re.sub(r"[^\w\s-]", "", value): drop what is no word character, space or hyphen
RECURSIVE DropOther(_)
DropOther(s) ==
    IF s = <<>> THEN <<>>
    ELSE IF IsWord(Head(s)) \/ IsSpace(Head(s)) \/ IsHyphen(Head(s))
         THEN <<Head(s)>> \o DropOther(Tail(s))
         ELSE DropOther(Tail(s))

\* re.sub(r"[-\s]+", "-", value): every run of hyphens and spaces becomes one hyphen
RECURSIVE Hyphenate(_)
Hyphenate(s) ==
    IF s = <<>> THEN <<>>
    ELSE IF IsSpace(Head(s)) \/ IsHyphen(Head(s))
         THEN IF Tail(s) # <<>> /\ (IsSpace(Head(Tail(s))) \/ IsHyphen(Head(Tail(s))))
              THEN Hyphenate(Tail(s))
              ELSE <<"-">> \o Hyphenate(Tail(s))
         ELSE <<Head(s)>> \o Hyphenate(Tail(s))

\* str.strip("-_")
RECURSIVE StripLeft(_)
StripLeft(s) ==
    IF s # <<>> /\ Head(s) \in {"-", "_"} THEN StripLeft(Tail(s)) ELSE s

RECURSIVE StripRight(_)
StripRight(s) ==
    IF s # <<>> /\ s[Len(s)] \in {"-", "_"}
    THEN StripRight(SubSeq(s, 1, Len(s) - 1)) ELSE s

\* django.template.defaultfilters.slugify
slugify(value) == StripRight(StripLeft(Hyphenate(DropOther(LowerText(value)))))

\* a variant of the lookup that compares case: title__contains=query
Contains(title, query) ==
    \E i \in 1 .. (Len(title) - Len(query) + 1) :
        SubSeq(title, i, i + Len(query) - 1) = query

\* title__icontains=query
IContains(title, query) ==
    \E i \in 1 .. (Len(title) - Len(query) + 1) :
        LowerText(SubSeq(title, i, i + Len(query) - 1)) = LowerText(query)

-----------------------------------------------------------------------------
(* The store *)

Max(S) == CHOOSE x \in S : \A y \in S : y <= x

\* a variant of Song.save that reads the highest position of every album
NewPositionOverall(a) ==
    LET taken == {songs[s].position : s \in DOMAIN songs}
        last_pos == IF taken = {} THEN None ELSE Max(taken)
    IN (IF last_pos = None THEN 0 ELSE last_pos) + 1

\* Song.save on a new row: one more than the highest position of the album
NewPosition(a) ==
    LET taken == {songs[s].position : s \in {x \in DOMAIN songs : songs[x].album = a}}
        last_pos == IF taken = {} THEN None ELSE Max(taken)
    IN (IF last_pos = None THEN 0 ELSE last_pos) + 1

\* Album.save: the slug is recomputed from the title
AlbumRow(acct, title) ==
    [artist_account |-> acct, title |-> title, slug |-> slugify(title)]

Restrict(f, S) == [x \in S |-> f[x]]

\* on_delete=CASCADE from Album to Song and Rating
SongsWithoutAlbum(a) == Restrict(songs, {s \in DOMAIN songs : songs[s].album # a})
RatingsWithoutAlbum(a) == Restrict(ratings, {r \in DOMAIN ratings : ratings[r].album # a})

\* the rows a request found, kept with its response
Store == [albums |-> albums, songs |-> songs]

-----------------------------------------------------------------------------
(* Lookups of the views *)

\* user.groups.filter(name=g).exists()
InGroup(u, g) == g \in u.groups

\* DottifyUser.objects.get(user=user) raises DoesNotExist when there is no row
DottifyUserExists(u) == u.profile # None
GetDottifyUser(u) == u.profile

\* a variant of IsArtistOrAdminMixin.test_func that passes every user
AnyGroupTestFunc(u) == u.is_authenticated

\* IsArtistOrAdminMixin.test_func
IsArtistOrAdminTestFunc(u) == \E g \in {"Artist", "DottifyAdmin"} : InGroup(u, g)

\* AlbumUpdateView.test_func
AlbumUpdateTestFunc(u, album) ==
    IF InGroup(u, "DottifyAdmin") THEN TRUE
    ELSE IF InGroup(u, "Artist")
            /\ DottifyUserExists(u)
            /\ album.artist_account = GetDottifyUser(u) THEN TRUE
    ELSE FALSE

\* a variant of AlbumDeleteView.test_func that compares without the lookup's guard:
\* a missing profile then equals a missing artist_account
AlbumDeleteTestFuncUnguarded(u, album) ==
    IF InGroup(u, "DottifyAdmin") THEN TRUE
    ELSE IF album.artist_account = GetDottifyUser(u) THEN TRUE
    ELSE FALSE

\* AlbumDeleteView.test_func
AlbumDeleteTestFunc(u, album) ==
    IF InGroup(u, "DottifyAdmin") THEN TRUE
    ELSE IF DottifyUserExists(u) /\ album.artist_account = GetDottifyUser(u) THEN TRUE
    ELSE FALSE

\* SongUpdateView.test_func
SongUpdateTestFunc(u, song) ==
    IF InGroup(u, "DottifyAdmin") THEN TRUE
    ELSE IF DottifyUserExists(u)
            /\ albums[song.album].artist_account = GetDottifyUser(u) THEN TRUE
    ELSE FALSE

\* SongDeleteView.test_func
SongDeleteTestFunc(u, song) ==
    IF InGroup(u, "DottifyAdmin") THEN TRUE
    ELSE IF DottifyUserExists(u)
            /\ albums[song.album].artist_account = GetDottifyUser(u) THEN TRUE
    ELSE FALSE

\* SongCreateView.form_valid, up to the save: "ok" or the refusal it answers with
SongCreateFormValid(u, album) ==
    IF InGroup(u, "Artist")
    THEN IF ~DottifyUserExists(u) THEN "no_account"
         ELSE IF album.artist_account # GetDottifyUser(u) THEN "not_your_album"
         ELSE "ok"
    ELSE "ok"

\* LoginRequiredMixin, get_object and UserPassesTestMixin in the order dispatch runs them
Dispatch(u, found, passes) ==
    IF ~u.is_authenticated THEN "login"
    ELSE IF ~found THEN "not_found"
    ELSE IF ~passes THEN "forbidden"
    ELSE "ok"

\* a variant of HomeView.get_queryset whose last branch lists every album
HomeQuerysetPublic(u) ==
    IF ~u.is_authenticated THEN DOMAIN albums
    ELSE IF InGroup(u, "DottifyAdmin") THEN DOMAIN albums
    ELSE IF InGroup(u, "Artist")
         THEN IF DottifyUserExists(u)
              THEN {a \in DOMAIN albums : albums[a].artist_account = GetDottifyUser(u)}
              ELSE {}
    ELSE DOMAIN albums

\* HomeView.get_queryset
HomeQueryset(u) ==
    IF ~u.is_authenticated THEN DOMAIN albums
    ELSE IF InGroup(u, "DottifyAdmin") THEN DOMAIN albums
    ELSE IF InGroup(u, "Artist")
         THEN IF DottifyUserExists(u)
              THEN {a \in DOMAIN albums : albums[a].artist_account = GetDottifyUser(u)}
              ELSE {}
    ELSE {}

\* a variant of context['playlists'] that shows a guest what is not Hidden
HomePlaylistsNotHidden(u) ==
    IF ~u.is_authenticated
    THEN {p \in DOMAIN playlists : playlists[p].visibility >= UNLISTED}
    ELSE IF InGroup(u, "DottifyAdmin") THEN DOMAIN playlists
    ELSE IF DottifyUserExists(u)
         THEN {p \in DOMAIN playlists : playlists[p].owner = GetDottifyUser(u)}
         ELSE {}

\* HomeView.get_context_data: context['playlists']
HomePlaylists(u) ==
    IF ~u.is_authenticated
    THEN {p \in DOMAIN playlists : playlists[p].visibility = PUBLIC}
    ELSE IF InGroup(u, "DottifyAdmin") THEN DOMAIN playlists
    ELSE IF DottifyUserExists(u)
         THEN {p \in DOMAIN playlists : playlists[p].owner = GetDottifyUser(u)}
         ELSE {}

\* HomeView.get_context_data: context['songs'] is set for DottifyAdmin alone
HomeHasSongs(u) == u.is_authenticated /\ InGroup(u, "DottifyAdmin")

\* PlaylistViewSet.get_queryset
PlaylistViewSetQueryset == {p \in DOMAIN playlists : playlists[p].visibility = PUBLIC}

-----------------------------------------------------------------------------------------------------------------------------------------------------
(* The client's session and the views.  Each view answers one request of the
   session's user and records it in last, with the rows it found. *)

Response(op, status) == [op |-> op, status |-> status, pre |-> Store]

\* client.login / client.logout: the requests that follow are u's
Login(u) ==
    /\ user' = u
    /\ last' = [op |-> "login", status |-> "ok"]
    /\ UNCHANGED <<albums, nextAlbumId, songs, nextSongId, playlists, saving, display_name,
                   ratings, now>>

\* GET /
HomeView ==
    /\ last' = [albums |-> HomeQueryset(user),
                total_results |-> Cardinality(HomeQueryset(user)),
                playlists |-> HomePlaylists(user),
                has_songs |-> HomeHasSongs(user),
                songs |-> IF HomeHasSongs(user) THEN DOMAIN songs ELSE {}]
               @@ Response("home", "ok")
    /\ UNCHANGED <<albums, nextAlbumId, songs, nextSongId, playlists, saving, display_name,
                   ratings, now, user>>

\* GET /api/playlists/
PlaylistViewSetList ==
    /\ last' = [playlists |-> PlaylistViewSetQueryset] @@ Response("api_playlists", "ok")
    /\ UNCHANGED <<albums, nextAlbumId, songs, nextSongId, playlists, saving, display_name,
                   ratings, now, user>>

\* POST /albums/new/ : AlbumForm has no artist_account field, the row gets the default
AlbumCreateView(title) ==
    LET status == Dispatch(user, TRUE, IsArtistOrAdminTestFunc(user)) IN
    /\ status = "ok" => nextAlbumId <= MaxAlbums
    /\ IF status = "ok"
       THEN /\ albums' = [a \in DOMAIN albums \cup {nextAlbumId} |->
                             IF a = nextAlbumId THEN AlbumRow(None, title) ELSE albums[a]]
            /\ nextAlbumId' = nextAlbumId + 1
       ELSE UNCHANGED <<albums, nextAlbumId>>
    /\ last' = [album |-> nextAlbumId] @@ Response("album_create", status)
    /\ UNCHANGED <<songs, nextSongId, playlists, saving, display_name, ratings, now, user>>

\* POST /albums/<pk>/edit/
AlbumUpdateView(pk, title) ==
    LET found == pk \in DOMAIN albums
        status == Dispatch(user, found, found /\ AlbumUpdateTestFunc(user, albums[pk])) IN
    /\ albums' = IF status = "ok"
                 THEN [albums EXCEPT ![pk] = AlbumRow(albums[pk].artist_account, title)]
                 ELSE albums
    /\ last' = [album |-> pk] @@ Response("album_update", status)
    /\ UNCHANGED <<nextAlbumId, songs, nextSongId, playlists, saving, display_name, ratings, now,
                   user>>

\* POST /albums/<pk>/delete/
AlbumDeleteView(pk) ==
    LET found == pk \in DOMAIN albums
        status == Dispatch(user, found, found /\ AlbumDeleteTestFunc(user, albums[pk])) IN
    /\ IF status = "ok"
       THEN /\ albums' = Restrict(albums, DOMAIN albums \ {pk})
            /\ songs' = SongsWithoutAlbum(pk)
            /\ ratings' = RatingsWithoutAlbum(pk)
       ELSE UNCHANGED <<albums, songs, ratings>>
    /\ last' = [album |-> pk] @@ Response("album_delete", status)
    /\ UNCHANGED <<nextAlbumId, nextSongId, playlists, saving, display_name, now, user>>

\* POST /songs/new/ : the form is invalid when its album is no Album row
SongCreateView(a) ==
    LET gate == Dispatch(user, TRUE, IsArtistOrAdminTestFunc(user))
        valid == a \in DOMAIN albums
        refusal == IF gate = "ok" /\ valid THEN SongCreateFormValid(user, albums[a])
                   ELSE "ok"
        status == IF gate # "ok" THEN gate
                  ELSE IF ~valid THEN "invalid"
                  ELSE IF refusal # "ok" THEN "forbidden"
                  ELSE "ok" IN
    /\ status = "ok" => nextSongId <= MaxSongs
    /\ IF status = "ok"
       THEN /\ songs' = [s \in DOMAIN songs \cup {nextSongId} |->
                            IF s = nextSongId
                            THEN [album |-> a, position |-> NewPosition(a)]
                            ELSE songs[s]]
            /\ nextSongId' = nextSongId + 1
       ELSE UNCHANGED <<songs, nextSongId>>
    /\ last' = [album |-> a, song |-> nextSongId, refusal |-> refusal]
               @@ Response("song_create", status)
    /\ UNCHANGED <<albums, nextAlbumId, playlists, saving, display_name, ratings, now, user>>

\* POST /songs/<pk>/edit/ : SongForm sets title, length and album; position is kept
SongUpdateView(pk, a) ==
    LET found == pk \in DOMAIN songs
        gate == Dispatch(user, found, found /\ SongUpdateTestFunc(user, songs[pk]))
        status == IF gate # "ok" THEN gate
                  ELSE IF a \notin DOMAIN albums THEN "invalid"
                  ELSE "ok" IN
    /\ songs' = IF status = "ok" THEN [songs EXCEPT ![pk].album = a] ELSE songs
    /\ last' = [song |-> pk, album |-> a] @@ Response("song_update", status)
    /\ UNCHANGED <<albums, nextAlbumId, nextSongId, playlists, saving, display_name, ratings, now,
                   user>>

\* POST /songs/<pk>/delete/
SongDeleteView(pk) ==
    LET found == pk \in DOMAIN songs
        status == Dispatch(user, found, found /\ SongDeleteTestFunc(user, songs[pk])) IN
    /\ songs' = IF status = "ok" THEN Restrict(songs, DOMAIN songs \ {pk}) ELSE songs
    /\ last' = [song |-> pk] @@ Response("song_delete", status)
    /\ UNCHANGED <<albums, nextAlbumId, nextSongId, playlists, saving, display_name, ratings, now,
                   user>>

-----------------------------------------------------------------------------
(* Spec: the create, update and delete views and the home page, over a store
   whose albums are claimed by any profile or by none. *)

Title0 == <<"a">>
NoRequest == [op |-> "none", status |-> "ok"]

\* one Hidden, one Public and one Unlisted playlist, of two owners
FixedPlaylists ==
    [p \in 1 .. 3 |-> [owner |-> IF p = 2 THEN 2 ELSE 1,
                       visibility |-> CASE p = 1 -> HIDDEN [] p = 2 -> PUBLIC
                                        [] OTHER -> UNLISTED]]

Init ==
    /\ albums \in [1 .. InitAlbums -> {AlbumRow(acct, Title0) : acct \in Profiles \cup {None}}]
    /\ nextAlbumId = InitAlbums + 1
    /\ songs = <<>>
    /\ nextSongId = 1
    /\ playlists = FixedPlaylists
    /\ display_name = [p \in Profiles |-> <<"a">>]
    /\ ratings = <<>>
    /\ now = 0
    /\ user = AnonymousUser
    /\ last = NoRequest
    /\ saving = <<>>

Next ==
    \/ \E u \in Principals : Login(u)
    \/ HomeView
    \/ AlbumCreateView(Title0)
    \/ \E pk \in AlbumIds : AlbumUpdateView(pk, Title0)
    \/ \E pk \in AlbumIds : AlbumDeleteView(pk)
    \/ \E a \in AlbumIds : SongCreateView(a)
    \/ \E pk \in SongIds, a \in AlbumIds : SongUpdateView(pk, a)
    \/ \E pk \in SongIds : SongDeleteView(pk)

Spec == Init /\ [][Next]_vars

-----------------------------------------------------------------------------
(* The vocabulary of the claims *)

\* the role of a principal: Admin before Artist before Member
Role(u) ==
    IF ~u.is_authenticated THEN "Guest"
    ELSE IF "DottifyAdmin" \in u.groups THEN "Admin"
    ELSE IF "Artist" \in u.groups THEN "Artist"
    ELSE "Member"

\* acct is the profile of u (a principal without a profile owns nothing)
IsProfileOf(acct, u) == u.profile # None /\ acct = u.profile

Permitted == last.status = "ok"
Denied == last.status \in {"forbidden", "login"}

\* the album a request on an Album aimed at, as the request found it
OnAlbum(ops) == last.op \in ops /\ last.album \in DOMAIN last.pre.albums
TargetAlbum == last.pre.albums[last.album]

\* the song a request on a Song aimed at, and the album it was in
OnSong(ops) == last.op \in ops /\ last.song \in DOMAIN last.pre.songs
TargetSong == last.pre.songs[last.song]
TargetSongAlbum == last.pre.albums[TargetSong.album]

-----------------------------------------------------------------------------
(* C1 *)

\* C1: Album update and Album delete are permitted exactly when the caller's
\* role is Admin, or it is Artist and the album's artist_account is the caller's
\* profile; a Member or Guest is always denied, a Member who is the album's
\* artist_account included, and after a denied delete the album still exists.
C1_AlbumWriteAdminOrOwningArtist ==
    OnAlbum({"album_update", "album_delete"}) =>
        /\ Permitted <=> \/ Role(user) = "Admin"
                         \/ /\ Role(user) = "Artist"
                            /\ IsProfileOf(TargetAlbum.artist_account, user)
        /\ Role(user) \in {"Member", "Guest"} => Denied
        /\ (last.op = "album_delete" /\ Denied) => last.album \in DOMAIN albums

-----------------------------------------------------------------------------
(* C2 *)

\* C2: Song update and Song delete are permitted exactly when the caller's role
\* is Admin, or it is Artist and the artist_account of the song's album is the
\* caller's profile; every other caller is denied, a Member whose profile owns
\* the song's album included.
C2_SongWriteAdminOrOwningArtist ==
    (OnSong({"song_update", "song_delete"}) /\ last.status # "invalid") =>
        /\ Permitted <=> \/ Role(user) = "Admin"
                         \/ /\ Role(user) = "Artist"
                            /\ IsProfileOf(TargetSongAlbum.artist_account, user)
        /\ ~Permitted => Denied

-----------------------------------------------------------------------------
(* C3 *)

\* C3: Song create under an album A is permitted only for role Artist or Admin,
\* for an Artist only if A's artist_account is the caller's profile; a denied
\* create adds no song; an Admin is permitted for any A.
C3_SongCreateGate ==
    OnAlbum({"song_create"}) =>
        /\ Permitted => Role(user) \in {"Artist", "Admin"}
        /\ Role(user) = "Artist" =>
              (Permitted <=> IsProfileOf(TargetAlbum.artist_account, user))
        /\ Role(user) = "Admin" => Permitted
        /\ ~Permitted => (Denied /\ songs = last.pre.songs)

-----------------------------------------------------------------------------
(* C4 *)

\* C4: a principal in both the Admin and the Artist group gets the Admin outcome
\* everywhere: both listings of the home page are unscoped, and album update,
\* album delete, song create, song update and song delete are permitted,
\* whatever its profile owns.
C4_AdminPrecedesArtist ==
    (user.is_authenticated /\ user.groups = {"DottifyAdmin", "Artist"}) =>
        /\ last.op = "home" =>
              /\ last.albums = DOMAIN albums
              /\ last.playlists = DOMAIN playlists
        /\ OnAlbum({"album_update", "album_delete", "song_create"}) => Permitted
        /\ (OnSong({"song_update", "song_delete"}) /\ last.status # "invalid") => Permitted

-----------------------------------------------------------------------------
(* C7 *)

\* C7: an authenticated principal without a profile, as Artist or Member, is
\* denied album update and delete and song update and delete on every album and
\* song, unclaimed albums included; as Artist it is denied song create, and its
\* album listing is empty; its playlist listing is empty; every one of these
\* requests is answered (403 or a page), none fails.
C7_NoProfileNoOwnership ==
    (user.is_authenticated /\ user.profile = None
        /\ Role(user) \in {"Artist", "Member"}) =>
        /\ OnAlbum({"album_update", "album_delete"}) =>
              (last.status = "forbidden" /\ albums = last.pre.albums)
        /\ OnSong({"song_update", "song_delete"}) =>
              (last.status = "forbidden" /\ songs = last.pre.songs)
        /\ (OnAlbum({"song_create"}) /\ Role(user) = "Artist") =>
              (last.status = "forbidden" /\ songs = last.pre.songs)
        /\ last.op = "home" =>
              /\ last.status = "ok"
              /\ last.playlists = {}
              /\ Role(user) = "Artist" => last.albums = {}

\* an Artist without a profile was refused the delete of an unclaimed album
C7_Witness ==
    /\ user.is_authenticated /\ user.profile = None /\ Role(user) = "Artist"
    /\ OnAlbum({"album_delete"})
    /\ TargetAlbum.artist_account = None
    /\ last.status = "forbidden"

-----------------------------------------------------------------------------
(* SpecAlbums: the album listing of the home page, over every store of
   MaxAlbums albums and what deleting albums leaves of it. *)

InitAlbumsList ==
    /\ albums \in [AlbumIds -> {AlbumRow(acct, Title0) : acct \in Profiles \cup {None}}]
    /\ nextAlbumId = MaxAlbums + 1
    /\ songs = <<>>
    /\ nextSongId = 1
    /\ playlists = FixedPlaylists
    /\ display_name = [p \in Profiles |-> <<"a">>]
    /\ ratings = <<>>
    /\ now = 0
    /\ user = AnonymousUser
    /\ last = NoRequest
    /\ saving = <<>>

NextAlbumsList ==
    \/ \E u \in Principals : Login(u)
    \/ HomeView
    \/ \E pk \in AlbumIds : AlbumDeleteView(pk)

SpecAlbums == InitAlbumsList /\ [][NextAlbumsList]_vars

(* SpecPlaylists: the playlist listings of the home page and of the API, over
   every store of NumPlaylists playlists. *)

InitPlaylists ==
    /\ albums = [a \in 1 .. InitAlbums |-> AlbumRow(None, Title0)]
    /\ nextAlbumId = InitAlbums + 1
    /\ songs = <<>>
    /\ nextSongId = 1
    /\ playlists \in [PlaylistIds -> [owner : Profiles, visibility : Visibility]]
    /\ display_name = [p \in Profiles |-> <<"a">>]
    /\ ratings = <<>>
    /\ now = 0
    /\ user = AnonymousUser
    /\ last = NoRequest
    /\ saving = <<>>

NextPlaylists ==
    \/ \E u \in Principals : Login(u)
    \/ HomeView
    \/ PlaylistViewSetList

SpecPlaylists == InitPlaylists /\ [][NextPlaylists]_vars

-----------------------------------------------------------------------------
(* C5 *)

AlbumsOf(u) == {a \in DOMAIN albums : IsProfileOf(albums[a].artist_account, u)}

\* C5: the album listing returned to a caller is, for role Artist, exactly the
\* albums whose artist_account is the caller's profile, and for roles Admin,
\* Guest and Member, all albums.
C5_AlbumListingByRole ==
    last.op = "home" =>
        last.albums = IF Role(user) = "Artist" THEN AlbumsOf(user) ELSE DOMAIN albums

\* C5, amended: the album listing returned to a caller is, for role Artist,
\* exactly the albums whose artist_account is the caller's profile, for roles
\* Admin and Guest all albums, and for role Member no album; total_results is
\* the size of the listing.
C5_AlbumListingMemberEmpty ==
    last.op = "home" =>
        /\ last.albums = CASE Role(user) = "Artist" -> AlbumsOf(user)
                           [] Role(user) = "Member" -> {}
                           [] OTHER -> DOMAIN albums
        /\ last.total_results = Cardinality(last.albums)

\* a Member asked for the home page of a store that holds albums, one of them
\* of its own profile, and was shown none
C5_Witness ==
    /\ last.op = "home" /\ Role(user) = "Member"
    /\ AlbumsOf(user) # {}
    /\ last.albums = {} /\ last.total_results = 0

-----------------------------------------------------------------------------
(* C6 *)

PlaylistsOf(u) == {p \in DOMAIN playlists : IsProfileOf(playlists[p].owner, u)}
PublicPlaylists == {p \in DOMAIN playlists : playlists[p].visibility = PUBLIC}

-----------------------------------------------------------------------------
(* SpecSearch: the album search over every store of MaxAlbums titled albums *)

TitleAlphabet == {"a", "B"}
QueryAlphabet == {"A", "b"}
Titles == {<<"a">>, <<"B">>, <<"a", "B">>, <<"B", "a">>}

\* request.GET: the query parameters, with q or without it
QueryDicts == {<<>>} \cup {[q |-> s] : s \in SeqsUpTo(QueryAlphabet, MaxQueryLen)}

\* a variant of the search's first check that lets everybody in
SearchGateOpen(u) == "ok"

\* album_search: the check of request.user
SearchGate(u) == IF ~u.is_authenticated THEN "unauthorized" ELSE "ok"

\* album_search: request.GET.get('q', '') and the filter on it
SearchQuery(GET) == IF "q" \in DOMAIN GET THEN GET.q ELSE <<>>
SearchResults(query) ==
    IF query # <<>>
    THEN {a \in DOMAIN albums : IContains(albums[a].title, query)}
    ELSE {}

\* GET /albums/search/
album_search(GET) ==
    LET status == SearchGate(user)
        found == IF status = "ok" THEN SearchResults(SearchQuery(GET)) ELSE {} IN
    /\ last' = [GET |-> GET, albums |-> found, total_results |-> Cardinality(found)]
               @@ Response("search", status)
    /\ UNCHANGED <<albums, nextAlbumId, songs, nextSongId, playlists, saving, display_name,
                   ratings, now, user>>

InitSearch ==
    /\ \E f \in [AlbumIds -> Titles] :
          albums = [a \in AlbumIds |-> AlbumRow(IF a = 1 THEN 1 ELSE None, f[a])]
    /\ nextAlbumId = MaxAlbums + 1
    /\ songs = <<>>
    /\ nextSongId = 1
    /\ playlists = FixedPlaylists
    /\ display_name = [p \in Profiles |-> <<"a">>]
    /\ ratings = <<>>
    /\ now = 0
    /\ user = AnonymousUser
    /\ last = NoRequest
    /\ saving = <<>>

NextSearch ==
    \/ \E u \in Principals : Login(u)
    \/ \E GET \in QueryDicts : album_search(GET)
    \/ \E pk \in AlbumIds, t \in Titles : AlbumUpdateView(pk, t)

SpecSearch == InitSearch /\ [][NextSearch]_vars

-----------------------------------------------------------------------------
(* C8 *)

\* C8: album search by an unauthenticated principal is answered Unauthorized
\* (401) and returns no album, for every query string, the empty one and a
\* missing parameter included, and for every store.
C8_SearchNeedsLogin ==
    (last.op = "search" /\ ~user.is_authenticated) =>
        /\ last.status = "unauthorized"
        /\ last.albums = {}
        /\ last.total_results = 0

\* a guest searched for a text that a title of the store contains
C8_Witness ==
    /\ last.op = "search" /\ ~user.is_authenticated
    /\ "q" \in DOMAIN last.GET
    /\ last.GET.q # <<>>
    /\ \E a \in DOMAIN albums : IContains(albums[a].title, last.GET.q)
    /\ last.status = "unauthorized"

-----------------------------------------------------------------------------
(* SpecSlug: the user page, for every display name of the first profile *)

Names == SeqsUpTo(Alphabet, MaxNameLen) \ {<<>>}

\* urls.py, <slug:slug>: a segment of one or more of [-a-zA-Z0-9_]
IsSlugChar(c) == c \in {"a", "b", "A", "B", "-", "_"}
MatchesSlugConverter(s) == s # <<>> /\ \A i \in DOMAIN s : IsSlugChar(s[i])

\* the slug segments of the requests: what slugify gives for some name, and
\* other segments the route accepts
RequestSlugs ==
    {s \in {slugify(n) : n \in Names} \cup SeqsUpTo(SlugAlphabet, MaxSlugLen) :
        MatchesSlugConverter(s)}

\* the keyword arguments the two user routes of urls.py pass to user_detail
UserRouteKwargs ==
    [pk : 1 .. NumProfiles + 1] \cup [pk : 1 .. NumProfiles + 1, slug : RequestSlugs]

\* redirect('user-detail-slug', pk=pk, slug=slug): reverse finds the URL when
\* the slug matches the route's converter and raises NoReverseMatch otherwise
Redirect(pk, slug) ==
    IF MatchesSlugConverter(slug)
    THEN [status |-> "redirect", location |-> [pk |-> pk, slug |-> slug]]
    ELSE [status |-> "error", location |-> [pk |-> pk, slug |-> slug]]

\* user_detail: slug != correct_slug, where a missing slug is None
SlugDiffers(kwargs, correct_slug) ==
    "slug" \notin DOMAIN kwargs \/ kwargs.slug # correct_slug

\* GET /users/<pk>/ and GET /users/<pk>/<slug>/
user_detail(kwargs) ==
    LET pk == kwargs.pk
        found == pk \in DOMAIN display_name
        correct_slug == slugify(display_name[pk])
        answer ==
            IF ~found THEN [status |-> "not_found"]
            ELSE IF SlugDiffers(kwargs, correct_slug) THEN Redirect(pk, correct_slug)
            ELSE [status |-> "ok", dottify_user |-> pk,
                  playlists |-> {p \in DOMAIN playlists : playlists[p].owner = pk}] IN
    /\ last' = [op |-> "user_detail", kwargs |-> kwargs, pre |-> Store] @@ answer
    /\ UNCHANGED <<albums, nextAlbumId, songs, nextSongId, playlists, saving, display_name,
                   ratings, now, user>>

InitSlug ==
    /\ albums = [a \in 1 .. InitAlbums |-> AlbumRow(None, Title0)]
    /\ nextAlbumId = InitAlbums + 1
    /\ songs = <<>>
    /\ nextSongId = 1
    /\ playlists = FixedPlaylists
    /\ \E n \in Names : display_name = [p \in Profiles |-> IF p = 1 THEN n ELSE <<"a">>]
    /\ ratings = <<>>
    /\ now = 0
    /\ user = AnonymousUser
    /\ last = NoRequest
    /\ saving = <<>>

NextSlug == \E kwargs \in UserRouteKwargs : user_detail(kwargs)

SpecSlug == InitSlug /\ [][NextSlug]_vars

-----------------------------------------------------------------------------
(* C9 *)

OnProfile == last.op = "user_detail" /\ last.kwargs.pk \in DOMAIN display_name
Canonical == slugify(display_name[last.kwargs.pk])
CarriesCanonical == "slug" \in DOMAIN last.kwargs /\ last.kwargs.slug = Canonical

\* C9: for every existing profile id and every display name, a user-detail
\* request whose slug is missing or is not slugify(display_name) is answered
\* with a redirect to the same id with the canonical slug, and a request that
\* carries the canonical slug is served the profile and its playlists.
C9_CanonicalSlugRedirect ==
    OnProfile =>
        IF CarriesCanonical
        THEN /\ last.status = "ok"
             /\ last.dottify_user = last.kwargs.pk
             /\ last.playlists = {p \in DOMAIN playlists :
                                     playlists[p].owner = last.kwargs.pk}
        ELSE /\ last.status = "redirect"
             /\ last.location = [pk |-> last.kwargs.pk, slug |-> Canonical]

-----------------------------------------------------------------------------
(* SpecRating: the album page, over ratings made as the clock goes on *)

StarChoices == {0, 1, 2, MaxStars}
Ticks == {RecentDays, RecentDays + 10}

RECURSIVE Gcd(_, _)
Gcd(a, b) == IF b = 0 THEN a ELSE Gcd(b, a % b)

RECURSIVE LcmUpTo(_)
LcmUpTo(n) == IF n <= 1 THEN 1 ELSE (LcmUpTo(n - 1) * n) \div Gcd(LcmUpTo(n - 1), n)

\* averages are kept exactly, in units of a half star divided by AvgUnit
AvgUnit == LcmUpTo(MaxRatings)

RECURSIVE SumStars(_)
SumStars(rs) ==
    IF rs = {} THEN 0
    ELSE LET r == CHOOSE x \in rs : TRUE IN ratings[r].stars + SumStars(rs \ {r})

\* aggregate(Avg('stars'))['stars__avg']: None (here <<>>) over no row
AvgStars(rs) ==
    IF rs = {} THEN <<>> ELSE <<(SumStars(rs) * AvgUnit) \div Cardinality(rs)>>

\* avg or 0.0
OrZero(avg) == IF avg = <<>> \/ avg[1] = 0 THEN 0 ELSE avg[1]

\* self.object.rating_set
RatingSet(pk) == {r \in DOMAIN ratings : ratings[r].album = pk}

\* a variant of the recent filter that leaves out the day the window opens
RecentRatingSetAfter(pk) ==
    {r \in RatingSet(pk) : ratings[r].created_at > now - RecentDays}

\* self.object.rating_set.filter(created_at__gte=sixty_days_ago)
RecentRatingSet(pk) ==
    {r \in RatingSet(pk) : ratings[r].created_at >= now - RecentDays}

\* f"{avg:.1f}": the tenths of a star nearest to avg, the even one of two
OneDecimal(avg) ==
    LET num == 5 * avg
        q == num \div AvgUnit
        r == num % AvgUnit IN
    IF 2 * r < AvgUnit THEN q
    ELSE IF 2 * r > AvgUnit THEN q + 1
    ELSE IF q % 2 = 0 THEN q ELSE q + 1

\* GET /albums/<pk>/ : AlbumDetailView.get_context_data
AlbumDetailView(pk) ==
    LET found == pk \in DOMAIN albums
        all_time_avg == OrZero(AvgStars(RatingSet(pk)))
        recent_avg == OrZero(AvgStars(RecentRatingSet(pk)))
        answer ==
            IF ~found THEN [status |-> "not_found"]
            ELSE [status |-> "ok",
                  songs |-> {x \in DOMAIN songs : songs[x].album = pk},
                  all_time_avg |-> all_time_avg,
                  recent_avg |-> recent_avg,
                  all_time_rating |-> OneDecimal(all_time_avg),
                  recent_rating |-> OneDecimal(recent_avg)] IN
    /\ last' = [op |-> "album_detail", album |-> pk, pre |-> Store] @@ answer
    /\ UNCHANGED <<albums, nextAlbumId, songs, nextSongId, playlists, saving, display_name,
                   ratings, now, user>>

\* Rating.objects.create(stars=..., album=...): created_at is auto_now_add
RatingCreate(stars, album) ==
    /\ Len(ratings) < MaxRatings
    /\ album = None \/ album \in DOMAIN albums
    /\ ratings' = Append(ratings, [album |-> album, stars |-> stars, created_at |-> now])
    /\ last' = [op |-> "rating_create", status |-> "ok"]
    /\ UNCHANGED <<albums, nextAlbumId, songs, nextSongId, playlists, saving, display_name, now,
                   user>>

\* days go by
Tick(d) ==
    /\ now + d <= MaxNow
    /\ now' = now + d
    /\ last' = [op |-> "tick", status |-> "ok"]
    /\ UNCHANGED <<albums, nextAlbumId, songs, nextSongId, playlists, saving, display_name,
                   ratings, user>>

InitRating ==
    /\ albums = [a \in 1 .. InitAlbums |-> AlbumRow(None, Title0)]
    /\ nextAlbumId = InitAlbums + 1
    /\ songs = <<>>
    /\ nextSongId = 1
    /\ playlists = FixedPlaylists
    /\ display_name = [p \in Profiles |-> <<"a">>]
    /\ ratings = <<>>
    /\ now = 0
    /\ user = AnonymousUser
    /\ last = NoRequest
    /\ saving = <<>>

NextRating ==
    \/ \E stars \in StarChoices, album \in AlbumIds \cup {None} : RatingCreate(stars, album)
    \/ \E d \in Ticks : Tick(d)
    \/ \E pk \in 1 .. InitAlbums + 1 : AlbumDetailView(pk)

SpecRating == InitRating /\ [][NextRating]_vars

-----------------------------------------------------------------------------
(* C10 *)

RatingsOfTarget == {r \in DOMAIN ratings : ratings[r].album = last.album}
RecentOfTarget == {r \in RatingsOfTarget : ratings[r].created_at >= now - 60}

RECURSIVE TotalHalfStars(_)
TotalHalfStars(rs) ==
    IF rs = {} THEN 0
    ELSE LET r == CHOOSE x \in rs : TRUE IN ratings[r].stars + TotalHalfStars(rs \ {r})

\* avg, in half stars over AvgUnit, is the arithmetic mean of the stars of rs,
\* and 0.0 over no rating
IsMeanOf(avg, rs) ==
    IF rs = {} THEN avg = 0
    ELSE avg * Cardinality(rs) = TotalHalfStars(rs) * AvgUnit

\* tenths is avg to one decimal place
IsNearestTenth(tenths, avg) ==
    /\ 2 * (tenths * AvgUnit - 5 * avg) <= AvgUnit
    /\ 2 * (5 * avg - tenths * AvgUnit) <= AvgUnit

\* C10: for every album and evaluation time, the all-time figure is the
\* arithmetic mean of stars over all ratings of the album and the recent figure
\* is the mean over exactly the ratings with created_at >= now - 60 days; each
\* is 0.0 when its set of ratings is empty; both are shown to one decimal place;
\* ratings of 5.0 now and 1.0 seventy days ago give 3.0 and 5.0.
C10_RatingAverages ==
    (last.op = "album_detail" /\ last.status = "ok") =>
        /\ IsMeanOf(last.all_time_avg, RatingsOfTarget)
        /\ IsMeanOf(last.recent_avg, RecentOfTarget)
        /\ IsNearestTenth(last.all_time_rating, last.all_time_avg)
        /\ IsNearestTenth(last.recent_rating, last.recent_avg)
        /\ ({<<ratings[r].stars, now - ratings[r].created_at>> : r \in RatingsOfTarget}
               = {<<10, 0>>, <<2, 70>>} /\ Cardinality(RatingsOfTarget) = 2)
           => (last.all_time_rating = 30 /\ last.recent_rating = 50)

\* the album page of an album rated 5.0 today and 1.0 seventy days ago
C10_Witness ==
    /\ last.op = "album_detail" /\ last.status = "ok"
    /\ {<<ratings[r].stars, now - ratings[r].created_at>> : r \in RatingsOfTarget}
          = {<<10, 0>>, <<2, 70>>}
    /\ Cardinality(RatingsOfTarget) = 2
    /\ last.all_time_rating = 30
    /\ last.recent_rating = 50

-----------------------------------------------------------------------------
(* SpecCreate: songs created one after another under fresh albums, by the
   form of the song page and by Song.objects.create *)

\* Song.objects.create(album=a, ...): Song.save gives the row its position
SongObjectsCreate(a) ==
    /\ nextSongId <= MaxTracks
    /\ a \in DOMAIN albums
    /\ songs' = [s \in DOMAIN songs \cup {nextSongId} |->
                    IF s = nextSongId
                    THEN [album |-> a, position |-> NewPosition(a)]
                    ELSE songs[s]]
    /\ nextSongId' = nextSongId + 1
    /\ last' = [album |-> a, song |-> nextSongId] @@ Response("song_objects_create", "ok")
    /\ UNCHANGED <<albums, nextAlbumId, playlists, saving, display_name, ratings, now, user>>

InitCreate ==
    /\ albums = [a \in AlbumIds |-> AlbumRow(None, Title0)]
    /\ nextAlbumId = MaxAlbums + 1
    /\ songs = <<>>
    /\ nextSongId = 1
    /\ playlists = FixedPlaylists
    /\ display_name = [p \in Profiles |-> <<"a">>]
    /\ ratings = <<>>
    /\ now = 0
    /\ user = AnonymousUser
    /\ last = NoRequest
    /\ saving = <<>>

NextCreate ==
    \/ \E u \in Principals : Login(u)
    \/ \E a \in AlbumIds : SongObjectsCreate(a)
    \/ \E a \in AlbumIds : SongCreateView(a)

SpecCreate == InitCreate /\ [][NextCreate]_vars

-----------------------------------------------------------------------------
(* C11 *)

SongsOfAlbum(a) == {s \in DOMAIN songs : songs[s].album = a}

\* the songs of s's album created no later than s (primary keys are handed
\* out in creation order)
CreatedUpTo(s) == {t \in SongsOfAlbum(songs[s].album) : t <= s}

\* C11: absent concurrent writers, creating n songs one after another under a
\* fresh album assigns them positions 1, 2, ..., n in creation order: the
\* k-th created song of the album has position k.
C11_SequentialPositions ==
    \A s \in DOMAIN songs : songs[s].position = Cardinality(CreatedUpTo(s))

\* three songs were created under one album, the last of them at position 3
C11_Witness ==
    \E a \in DOMAIN albums :
        /\ Cardinality(SongsOfAlbum(a)) = 3
        /\ last.op \in {"song_objects_create", "song_create"} /\ last.status = "ok"
        /\ last.album = a /\ songs[last.song].position = 3

-----------------------------------------------------------------------------
(* SpecApi: the viewsets the router registers for albums and songs *)

\* APIView.check_permissions: AlbumViewSet and SongViewSet name no
\* permission_classes, and the viewsets of rest_framework then allow any caller
CheckPermissions(u) == TRUE

\* APIView.initial runs the permission check before get_object looks the row up
ApiDispatch(u, found) ==
    IF ~CheckPermissions(u) THEN "forbidden"
    ELSE IF ~found THEN "not_found"
    ELSE "ok"

\* POST /api/albums/ : AlbumSerializer has no artist_account field
AlbumViewSetCreate(title) ==
    LET status == ApiDispatch(user, TRUE) IN
    /\ status = "ok" => nextAlbumId <= MaxAlbums
    /\ IF status = "ok"
       THEN /\ albums' = [a \in DOMAIN albums \cup {nextAlbumId} |->
                             IF a = nextAlbumId THEN AlbumRow(None, title) ELSE albums[a]]
            /\ nextAlbumId' = nextAlbumId + 1
       ELSE UNCHANGED <<albums, nextAlbumId>>
    /\ last' = [album |-> nextAlbumId] @@ Response("api_album_create", status)
    /\ UNCHANGED <<songs, nextSongId, playlists, saving, display_name, ratings, now, user>>

\* PUT /api/albums/<pk>/
AlbumViewSetUpdate(pk, title) ==
    LET status == ApiDispatch(user, pk \in DOMAIN albums) IN
    /\ albums' = IF status = "ok"
                 THEN [albums EXCEPT ![pk] = AlbumRow(albums[pk].artist_account, title)]
                 ELSE albums
    /\ last' = [album |-> pk] @@ Response("api_album_update", status)
    /\ UNCHANGED <<nextAlbumId, songs, nextSongId, playlists, saving, display_name, ratings,
                   now, user>>

\* DELETE /api/albums/<pk>/
AlbumViewSetDestroy(pk) ==
    LET status == ApiDispatch(user, pk \in DOMAIN albums) IN
    /\ IF status = "ok"
       THEN /\ albums' = Restrict(albums, DOMAIN albums \ {pk})
            /\ songs' = SongsWithoutAlbum(pk)
            /\ ratings' = RatingsWithoutAlbum(pk)
       ELSE UNCHANGED <<albums, songs, ratings>>
    /\ last' = [album |-> pk] @@ Response("api_album_delete", status)
    /\ UNCHANGED <<nextAlbumId, nextSongId, playlists, saving, display_name, now, user>>

\* POST /api/songs/ : SongSerializer takes title, length and album; the
\* serializer is invalid when its album is no Album row
SongViewSetCreate(a) ==
    LET gate == ApiDispatch(user, TRUE)
        status == IF gate # "ok" THEN gate
                  ELSE IF a \notin DOMAIN albums THEN "invalid"
                  ELSE "ok" IN
    /\ status = "ok" => nextSongId <= MaxSongs
    /\ IF status = "ok"
       THEN /\ songs' = [s \in DOMAIN songs \cup {nextSongId} |->
                            IF s = nextSongId
                            THEN [album |-> a, position |-> NewPosition(a)]
                            ELSE songs[s]]
            /\ nextSongId' = nextSongId + 1
       ELSE UNCHANGED <<songs, nextSongId>>
    /\ last' = [album |-> a, song |-> nextSongId] @@ Response("api_song_create", status)
    /\ UNCHANGED <<albums, nextAlbumId, playlists, saving, display_name, ratings, now, user>>

\* PUT /api/songs/<pk>/ : position is no field of the serializer and is kept
SongViewSetUpdate(pk, a) ==
    LET gate == ApiDispatch(user, pk \in DOMAIN songs)
        status == IF gate # "ok" THEN gate
                  ELSE IF a \notin DOMAIN albums THEN "invalid"
                  ELSE "ok" IN
    /\ songs' = IF status = "ok" THEN [songs EXCEPT ![pk].album = a] ELSE songs
    /\ last' = [song |-> pk, album |-> a] @@ Response("api_song_update", status)
    /\ UNCHANGED <<albums, nextAlbumId, nextSongId, playlists, saving, display_name, ratings,
                   now, user>>

\* DELETE /api/songs/<pk>/
SongViewSetDestroy(pk) ==
    LET status == ApiDispatch(user, pk \in DOMAIN songs) IN
    /\ songs' = IF status = "ok" THEN Restrict(songs, DOMAIN songs \ {pk}) ELSE songs
    /\ last' = [song |-> pk] @@ Response("api_song_delete", status)
    /\ UNCHANGED <<albums, nextAlbumId, nextSongId, playlists, saving, display_name, ratings,
                   now, user>>

NextApi ==
    \/ \E u \in Principals : Login(u)
    \/ AlbumViewSetCreate(Title0)
    \/ \E pk \in AlbumIds : AlbumViewSetUpdate(pk, Title0)
    \/ \E pk \in AlbumIds : AlbumViewSetDestroy(pk)
    \/ \E a \in AlbumIds : SongViewSetCreate(a)
    \/ \E pk \in SongIds, a \in AlbumIds : SongViewSetUpdate(pk, a)
    \/ \E pk \in SongIds : SongViewSetDestroy(pk)

SpecApi == Init /\ [][NextApi]_vars

-----------------------------------------------------------------------------
(* C12 *)

ViewWrites == {"album_create", "album_update", "album_delete",
               "song_create", "song_update", "song_delete"}
ApiWrites == {"api_album_create", "api_album_update", "api_album_delete",
              "api_song_create", "api_song_update", "api_song_delete"}

\* a write answered 403 (or sent to the login page) that left the store alone
DeniedUnchanged ==
    /\ last.status \in {"forbidden", "unauthorized", "login"}
    /\ Store = last.pre

\* the artist_account that owns the row an update or delete aimed at
TargetOwner ==
    IF last.op \in {"album_update", "album_delete", "api_album_update", "api_album_delete"}
    THEN last.pre.albums[last.album].artist_account
    ELSE last.pre.albums[last.pre.songs[last.song].album].artist_account

OnExistingRow ==
    \/ /\ last.op \in {"album_update", "album_delete", "api_album_update", "api_album_delete"}
       /\ last.album \in DOMAIN last.pre.albums
    \/ /\ last.op \in {"song_update", "song_delete", "api_song_update", "api_song_delete"}
       /\ last.song \in DOMAIN last.pre.songs

\* C12: the allow/deny decision for a write on an Album or Song is the same
\* through the API as through the browsable views: a Guest or Member never
\* creates, updates or deletes an Album or Song, and an Artist never updates or
\* deletes an Album or Song whose owning artist_account is not its profile;
\* every such attempt is denied and changes nothing.
C12_SameDecisionAtEveryEntryPoint ==
    last.op \in ViewWrites \cup ApiWrites =>
        /\ Role(user) \in {"Guest", "Member"} => DeniedUnchanged
        /\ (Role(user) = "Artist" /\ OnExistingRow /\ ~IsProfileOf(TargetOwner, user))
              => DeniedUnchanged

-----------------------------------------------------------------------------
(* SpecDetail: the read-one operations of the browsable views and of the API,
   for every caller, over a store with a playlist of each visibility *)

\* a variant of the detail page's lookup that looks among the Public playlists
PlaylistDetailQuerysetPublic ==
    {p \in DOMAIN playlists : playlists[p].visibility = PUBLIC}

\* PlaylistDetailView: model = Playlist, the lookup is over Playlist.objects.all()
PlaylistDetailQueryset == DOMAIN playlists

\* a detail request answers the row or 404
GetObject(pk, queryset) == IF pk \in queryset THEN "ok" ELSE "not_found"

\* GET /playlists/<pk>/
PlaylistDetailView(pk) ==
    /\ last' = [op |-> "playlist_detail", playlist |-> pk, status |-> GetObject(pk, PlaylistDetailQueryset),
                pre |-> Store]
    /\ UNCHANGED <<albums, nextAlbumId, songs, nextSongId, playlists, saving, display_name,
                   ratings, now, user>>

\* GET /api/playlists/<pk>/ : get_object looks in get_queryset()
PlaylistViewSetRetrieve(pk) ==
    /\ last' = [op |-> "api_playlist_retrieve", playlist |-> pk, status |-> GetObject(pk, PlaylistViewSetQueryset),
                pre |-> Store]
    /\ UNCHANGED <<albums, nextAlbumId, songs, nextSongId, playlists, saving, display_name,
                   ratings, now, user>>

\* GET /songs/<pk>/
SongDetailView(pk) ==
    /\ last' = [op |-> "song_detail", song |-> pk, status |-> GetObject(pk, DOMAIN songs),
                pre |-> Store]
    /\ UNCHANGED <<albums, nextAlbumId, songs, nextSongId, playlists, saving, display_name,
                   ratings, now, user>>

\* GET /api/songs/<pk>/
SongViewSetRetrieve(pk) ==
    /\ last' = [op |-> "api_song_retrieve", song |-> pk, status |-> GetObject(pk, DOMAIN songs),
                pre |-> Store]
    /\ UNCHANGED <<albums, nextAlbumId, songs, nextSongId, playlists, saving, display_name,
                   ratings, now, user>>

\* GET /api/albums/<pk>/
AlbumViewSetRetrieve(pk) ==
    /\ last' = [op |-> "api_album_retrieve", album |-> pk, status |-> GetObject(pk, DOMAIN albums),
                pre |-> Store]
    /\ UNCHANGED <<albums, nextAlbumId, songs, nextSongId, playlists, saving, display_name,
                   ratings, now, user>>

\* GET /api/albums/<album_pk>/songs/<pk>/ : get_object_or_404(Song, pk=pk, album_id=album_pk)
NestedSongViewSetRetrieve(album_pk, pk) ==
    /\ last' = [op |-> "api_nested_song_retrieve", song |-> pk, album |-> album_pk,
                status |-> GetObject(pk, {s \in DOMAIN songs : songs[s].album = album_pk}),
                pre |-> Store]
    /\ UNCHANGED <<albums, nextAlbumId, songs, nextSongId, playlists, saving, display_name,
                   ratings, now, user>>

InitDetail ==
    /\ albums = [a \in AlbumIds |-> AlbumRow(IF a = 1 THEN 1 ELSE None, Title0)]
    /\ nextAlbumId = MaxAlbums + 1
    /\ songs = <<[album |-> 1, position |-> 1]>>
    /\ nextSongId = 2
    /\ playlists = FixedPlaylists
    /\ display_name = [p \in Profiles |-> <<"a">>]
    /\ ratings = <<>>
    /\ now = 0
    /\ user = AnonymousUser
    /\ last = NoRequest
    /\ saving = <<>>

NextDetail ==
    \/ \E u \in Principals : Login(u)
    \/ HomeView
    \/ PlaylistViewSetList
    \/ \E pk \in 1 .. NumPlaylists + 1 : PlaylistDetailView(pk)
    \/ \E pk \in 1 .. NumPlaylists + 1 : PlaylistViewSetRetrieve(pk)
    \/ \E pk \in 1 .. 2 : SongDetailView(pk)
    \/ \E pk \in 1 .. 2 : SongViewSetRetrieve(pk)
    \/ \E pk \in 1 .. MaxAlbums + 1 : AlbumDetailView(pk)
    \/ \E pk \in 1 .. MaxAlbums + 1 : AlbumViewSetRetrieve(pk)
    \/ \E album_pk \in AlbumIds, pk \in 1 .. 2 : NestedSongViewSetRetrieve(album_pk, pk)

SpecDetail == InitDetail /\ [][NextDetail]_vars

-----------------------------------------------------------------------------
(* C13 *)

\* a read-one request, through a browsable view or the API, for a row that exists
OnExistingPlaylist(ops) == last.op \in ops /\ last.playlist \in DOMAIN playlists
OnExistingSong(ops) == last.op \in ops /\ last.song \in DOMAIN songs
OnExistingAlbum(ops) == last.op \in ops /\ last.album \in DOMAIN albums

\* C13: a read-one (detail) operation on a Playlist, Song or Album by id
\* succeeds for every caller and every existing id, whatever the visibility or
\* the owner: a Hidden or Unlisted playlist is retrievable by id by a Guest
\* through the browsable view and through the API.
C13_DetailUnscoped ==
    /\ OnExistingPlaylist({"playlist_detail", "api_playlist_retrieve"}) => last.status = "ok"
    /\ OnExistingSong({"song_detail", "api_song_retrieve"}) => last.status = "ok"
    /\ OnExistingAlbum({"album_detail", "api_album_retrieve"}) => last.status = "ok"

\* C13, amended: a read-one operation on a Song or Album by id, through the
\* browsable views and the API, and on a Playlist through the browsable view,
\* succeeds for every caller and every existing id, whatever the visibility or
\* the owner; the API's playlist detail succeeds exactly for the Public
\* playlists and answers not found for a Hidden or Unlisted one; a song asked
\* for under an album succeeds exactly when it is a song of that album.
C13_DetailUnscopedButApiPlaylists ==
    /\ OnExistingPlaylist({"playlist_detail"}) => last.status = "ok"
    /\ OnExistingPlaylist({"api_playlist_retrieve"}) =>
          last.status = IF playlists[last.playlist].visibility = PUBLIC
                        THEN "ok" ELSE "not_found"
    /\ OnExistingSong({"song_detail", "api_song_retrieve"}) => last.status = "ok"
    /\ OnExistingAlbum({"album_detail", "api_album_retrieve"}) => last.status = "ok"
    /\ OnExistingSong({"api_nested_song_retrieve"}) =>
          last.status = IF songs[last.song].album = last.album THEN "ok" ELSE "not_found"

\* a Guest was served the page of a Hidden playlist, which its listing leaves out
C13_Witness ==
    /\ last.op = "playlist_detail" /\ Role(user) = "Guest"
    /\ last.playlist \in DOMAIN playlists
    /\ playlists[last.playlist].visibility = HIDDEN
    /\ last.playlist \notin HomePlaylists(user)
    /\ last.status = "ok"

-----------------------------------------------------------------------------
(* C14 *)

\* C14: Album create is permitted only for callers whose role is Artist or
\* Admin; a Guest or Member is denied and no album is added; a permitted
\* create adds exactly one album, whose artist_account is absent: the creating
\* Artist's profile is not the owner of the album it just created.
C14_AlbumCreateGateNoOwner ==
    last.op = "album_create" =>
        /\ Permitted => Role(user) \in {"Artist", "Admin"}
        /\ Role(user) \in {"Guest", "Member"} => (Denied /\ albums = last.pre.albums)
        /\ Permitted =>
              /\ last.album \notin DOMAIN last.pre.albums
              /\ DOMAIN albums = DOMAIN last.pre.albums \cup {last.album}
              /\ \A a \in DOMAIN last.pre.albums : albums[a] = last.pre.albums[a]
              /\ albums[last.album].artist_account = None
              /\ ~IsProfileOf(albums[last.album].artist_account, user)

\* an Artist with a profile created an album, which its own listing leaves out
C14_Witness ==
    /\ last.op = "album_create" /\ Permitted
    /\ Role(user) = "Artist" /\ user.profile # None
    /\ last.album \in DOMAIN albums
    /\ last.album \notin HomeQueryset(user)

-----------------------------------------------------------------------------
(* SpecRace: song-creation requests handled at the same time.  Song.save reads
   the album's highest position and writes the new row in two steps, with no
   lock or transaction around them. *)

Requests == 1 .. MaxRequests

\* Song.save, the read: .order_by("-position").values_list("position").first()
LastPosition(a) ==
    LET taken == {songs[s].position : s \in {x \in DOMAIN songs : songs[x].album = a}}
    IN IF taken = {} THEN None ELSE Max(taken)

\* a variant of Song.save that keeps the position it read
SavePositionKept(last_pos) == IF last_pos = None THEN 1 ELSE last_pos

\* Song.save, the new position: (last_pos or 0) + 1
SavePosition(last_pos) == (IF last_pos = None THEN 0 ELSE last_pos) + 1

\* request r, creating a song under album a, runs the query of Song.save;
\* seen is the set of rows the query ran over
SongSaveRead(r, a) ==
    /\ r \notin DOMAIN saving
    /\ a \in DOMAIN albums
    /\ nextSongId + Cardinality(DOMAIN saving) <= MaxTracks
    /\ saving' = [x \in DOMAIN saving \cup {r} |->
                     IF x = r
                     THEN [album |-> a, last_pos |-> LastPosition(a), seen |-> DOMAIN songs]
                     ELSE saving[x]]
    /\ last' = [op |-> "song_save_read", status |-> "ok", request |-> r, album |-> a]
    /\ UNCHANGED <<albums, nextAlbumId, songs, nextSongId, playlists, display_name, ratings,
                   now, user>>

\* request r runs super().save(): the row is inserted with the position
\* computed from what r read
SongSaveWrite(r) ==
    /\ r \in DOMAIN saving
    /\ songs' = [s \in DOMAIN songs \cup {nextSongId} |->
                    IF s = nextSongId
                    THEN [album |-> saving[r].album,
                          position |-> SavePosition(saving[r].last_pos)]
                    ELSE songs[s]]
    /\ nextSongId' = nextSongId + 1
    /\ saving' = Restrict(saving, DOMAIN saving \ {r})
    /\ last' = [request |-> r, song |-> nextSongId, album |-> saving[r].album,
                last_pos |-> saving[r].last_pos, seen |-> saving[r].seen]
               @@ Response("song_save", "ok")
    /\ UNCHANGED <<albums, nextAlbumId, playlists, display_name, ratings, now, user>>

NextRace ==
    \/ \E r \in Requests, a \in AlbumIds : SongSaveRead(r, a)
    \/ \E r \in Requests : SongSaveWrite(r)

SpecRace == InitCreate /\ [][NextRace]_vars

-----------------------------------------------------------------------------
(* C15 *)

\* the other songs of the album of the row just written
Siblings == SongsOfAlbum(last.album) \ {last.song}

\* the siblings written between the read and the write of the last request
WrittenBetween == {s \in Siblings : s \notin last.seen}

\* C15: two song-creation requests for the same album that interleave (both
\* read the album's current maximum before either writes) observe the same
\* maximum and both store max + 1: a request stores the maximum it read plus
\* one whatever was written since; its row shares a position only with rows
\* written between its read and its write, and has a position of its own when
\* there is none; a state with two songs of one album at one position is reached.
C15_InterleavedCreatesSharePosition ==
    last.op = "song_save" =>
        /\ songs[last.song].position =
              (IF last.last_pos = None THEN 0 ELSE last.last_pos) + 1
        /\ \A s \in Siblings :
              songs[s].position = songs[last.song].position => s \in WrittenBetween
        /\ WrittenBetween = {} =>
              \A s \in Siblings : songs[s].position < songs[last.song].position

\* two requests read the same maximum of an album and the second has just
\* written: two songs of the album share a position
C15_Witness ==
    /\ last.op = "song_save"
    /\ \E s \in WrittenBetween :
          /\ songs[s].album = songs[last.song].album
          /\ songs[s].position = songs[last.song].position
          /\ songs[s].position = (IF last.last_pos = None THEN 0 ELSE last.last_pos) + 1

-----------------------------------------------------------------------------
(* SpecPosition: songs created, moved to another album and deleted, one
   request after another *)

NextPosition ==
    \/ \E u \in Principals : Login(u)
    \/ \E a \in AlbumIds : SongObjectsCreate(a)
    \/ \E a \in AlbumIds : SongCreateView(a)
    \/ \E pk \in TrackIds, a \in AlbumIds : SongUpdateView(pk, a)
    \/ \E pk \in TrackIds : SongDeleteView(pk)

SpecPosition == InitCreate /\ [][NextPosition]_vars

-----------------------------------------------------------------------------
(* C16 *)

PositionsOfAlbum(a) == {songs[s].position : s \in SongsOfAlbum(a)}

\* C16: absent concurrent writers, in every state reached by song creates,
\* song updates (an update that changes the song's album included) and song
\* deletes, the positions of the songs of each album are pairwise distinct and
\* are exactly 1..n for an album with n songs, and an update never changes a
\* song's position.
C16_PositionsSequentialGapFree ==
    /\ \A a \in DOMAIN albums :
          /\ Cardinality(PositionsOfAlbum(a)) = Cardinality(SongsOfAlbum(a))
          /\ PositionsOfAlbum(a) = 1 .. Cardinality(SongsOfAlbum(a))
    /\ (last.op = "song_update" /\ last.song \in DOMAIN last.pre.songs) =>
          songs[last.song].position = last.pre.songs[last.song].position

-----------------------------------------------------------------------------
(* C17 *)

\* the songs of a store that belong to albums whose artist_account is not P,
\* each with the album it belongs to
ForeignSongs(store, P) ==
    {[song |-> s, album |-> store.songs[s].album] :
        s \in {x \in DOMAIN store.songs :
                  store.albums[store.songs[x].album].artist_account # P}}

\* C17: a request made by a non-admin Artist with profile P leaves the set of
\* songs that belong to albums whose artist_account is not P unchanged: a
\* permitted Song update on a song the Artist owns does not move that song
\* into an album the Artist does not own.
C17_ArtistLeavesForeignSongs ==
    (Role(user) = "Artist" /\ user.profile # None /\ last.op \in ViewWrites) =>
        ForeignSongs(Store, user.profile) = ForeignSongs(last.pre, user.profile)

-----------------------------------------------------------------------------
(* C18 *)

\* the search text of the last request: the q parameter, or '' without one
SearchedText == IF "q" \in DOMAIN last.GET THEN last.GET.q ELSE <<>>

\* the albums whose title holds q as a substring, whatever the case
TitleMatches(q) ==
    {a \in DOMAIN albums :
        \E i \in 1 .. Len(albums[a].title) + 1, j \in 0 .. Len(albums[a].title) :
            /\ j - i + 1 = Len(q)
            /\ LowerText(SubSeq(albums[a].title, i, j)) = LowerText(q)}

OnSearchByUser == last.op = "search" /\ user.is_authenticated

\* C18: for every authenticated principal and every query string q, album
\* search returns exactly the albums whose title contains q as a
\* case-insensitive substring, unscoped by role or ownership, with
\* total_results the size of that set; the empty query string, a substring of
\* every title, included.
C18_SearchIsSubstringMatch ==
    (OnSearchByUser /\ "q" \in DOMAIN last.GET) =>
        /\ last.status = "ok"
        /\ last.albums = TitleMatches(SearchedText)
        /\ last.total_results = Cardinality(TitleMatches(SearchedText))

\* C18, amended: for every authenticated principal and every non-empty query
\* string q, album search returns exactly the albums whose title contains q as
\* a case-insensitive substring, unscoped by role or ownership, with
\* total_results the size of that set; for the empty query string, and without
\* a q parameter, it returns no album and total_results is 0.
C18_SearchIsSubstringMatchUnlessEmpty ==
    OnSearchByUser =>
        /\ last.status = "ok"
        /\ last.albums = IF SearchedText = <<>> THEN {} ELSE TitleMatches(SearchedText)
        /\ last.total_results = Cardinality(last.albums)

\* a Member found, by a text in another case, an album some profile owns and
\* not the other album
C18_Witness ==
    /\ OnSearchByUser /\ Role(user) = "Member"
    /\ SearchedText # <<>>
    /\ \E a \in last.albums :
          /\ albums[a].artist_account # None
          /\ ~IsProfileOf(albums[a].artist_account, user)
          /\ \A i \in 1 .. Len(albums[a].title) - Len(SearchedText) + 1 :
                SubSeq(albums[a].title, i, i + Len(SearchedText) - 1) # SearchedText
    /\ last.albums # DOMAIN albums
    /\ last.total_results = 1

====
